---- MODULE Spec2Model ----
(***************************************************************************)
(* Model of the two browser-automation verification routines               *)
(*   verification/verify_content.py   : verify_kanji_content               *)
(*   verification/verify_dashboard.py : verify_kanji_dashboard             *)
(* One behaviour is one run of one routine.  The page under test is an     *)
(* external collaborator: what each library call observes of it (element   *)
(* present or not, when a card appears, how many elements a locator        *)
(* resolves to, whether a screenshot can be written) is an input drawn at  *)
(* the step that makes the call.  A library call that fails raises; the    *)
(* routine's control flow (try/except, with) decides where it lands.       *)
(***************************************************************************)
EXTENDS Integers, Sequences, FiniteSets

VARIABLES
    routine,          \* "content" | "dashboard": which script runs
    pc,               \* position of the control flow in the routine
    playwright,       \* the sync_playwright() context: "started" | "stopped"
    browser,          \* "none" | "open" | "closed" (closed = browser.close() ran)
    launchCount,      \* number of successful p.chromium.launch calls
    closeCount,       \* number of browser.close() calls
    inputValue,       \* value of #kanji-input as set by page.fill
    log,              \* library calls made so far, in order: [op, ok]
    stdout,           \* lines printed so far, in order: [line, val]
    files,            \* screenshot paths written
    clock,            \* elapsed time in ms
    waitStart,        \* clock when the result wait began (-1: not begun)
    waitEnd,          \* clock when the result wait returned control (-1: not yet)
    cardAt,           \* clock when a .kanji-card was first observed (-1: none)
    exc,              \* exception in flight ("none" when there is none)
    caught,           \* exceptions the routine's except clause has bound to e
    exitStatus,       \* "running" | "normal" | "traceback"
    card1Count,       \* result of card1.count() (-1: not evaluated)
    anchors,          \* result of card1.locator(".anchor-word").all_inner_texts()
    first_card_text   \* result of first_card.inner_text()

vars == <<routine, pc, playwright, browser, launchCount, closeCount, inputValue,
          log, stdout, files, clock, waitStart, waitEnd, cardAt, exc, caught,
          exitStatus, card1Count, anchors, first_card_text>>

\* ---------------------------------------------------------------- constants
FirstWaitTimeoutMs == 10000
SettleDelayMs == 5000
AnchorsShown == 3
ExcerptLimit == 100

\* ------------------------------------------------------------------- bounds
TickMs == 2500
MaxTicks == 5
MaxMatches == 2
MaxAnchors == 4
MaxExtra == 2

\* the delay of a card that never appears
Never == 0 - 1
CardDelays == {k * TickMs : k \in 0..MaxTicks} \cup {FirstWaitTimeoutMs, Never}
LoadDelays == {0, TickMs}
AnchorWords == {"a", "b"}
AnchorLists == UNION {[1..n -> AnchorWords] : n \in 0..MaxAnchors}
FieldTexts == {"", "txt"}
TextLens == {0, 1, ExcerptLimit - 1, ExcerptLimit, ExcerptLimit + 1,
             ExcerptLimit + MaxExtra}
Text(L) == [i \in 1..L |-> i % 7]

\* the query typed into the input (the three-kanji compound, transliterated)
QueryText == "kaigishitsu"
ResultPath == "verification/dashboard_result.png"
ErrorPath == "verification/dashboard_error.png"

\* ------------------------------------------------------------------ helpers
Min(a, b) == IF a <= b THEN a ELSE b

\* Variant of PySlice that forgets the cut: s instead of s[:n]
PySlice_NoCut(s, n) == s

\* Python's s[:n] for n >= 0
PySlice(s, n) == SubSeq(s, 1, Min(n, Len(s)))

Call(op, ok) == Append(log, [op |-> op, ok |-> ok])
Emit(line, val) == Append(stdout, [line |-> line, val |-> val])

Init ==
    /\ routine \in {"content", "dashboard"}
    /\ pc = "launch"
    /\ playwright = "started"
    /\ browser = "none"
    /\ launchCount = 0
    /\ closeCount = 0
    /\ inputValue = ""
    /\ log = <<>>
    /\ stdout = <<>>
    /\ files = {}
    /\ clock = 0
    /\ waitStart = -1
    /\ waitEnd = -1
    /\ cardAt = -1
    /\ exc = "none"
    /\ caught = <<>>
    /\ exitStatus = "running"
    /\ card1Count = -1
    /\ anchors = <<>>
    /\ first_card_text = <<>>

sess == <<playwright, browser, launchCount, closeCount>>
timing == <<clock, waitStart, waitEnd, cardAt>>
data == <<card1Count, anchors, first_card_text>>

\* ========================================================= verify_content.py

\* line 5: browser = p.chromium.launch(headless=True); outside the try
ContentLaunch ==
    /\ routine = "content" /\ pc = "launch"
    /\ \E ok \in BOOLEAN :
        IF ok
        THEN /\ browser' = "open"
             /\ launchCount' = launchCount + 1
             /\ log' = Call("launch", TRUE)
             /\ pc' = "new_page"
             /\ exc' = exc
        ELSE /\ log' = Call("launch", FALSE)
             /\ exc' = "LaunchError"
             /\ pc' = "raise"
             /\ UNCHANGED <<browser, launchCount>>
    /\ UNCHANGED <<routine, playwright, closeCount, inputValue, stdout, files,
                   timing, caught, exitStatus, data>>

\* line 6: page = browser.new_page()
ContentNewPage ==
    /\ routine = "content" /\ pc = "new_page"
    /\ log' = Call("new_page", TRUE)
    /\ pc' = "goto"
    /\ UNCHANGED <<routine, sess, inputValue, stdout, files, timing, exc, caught,
                   exitStatus, data>>

\* line 9: page.goto(...); outside the try
ContentGoto ==
    /\ routine = "content" /\ pc = "goto"
    /\ \E ok \in BOOLEAN, d \in LoadDelays :
        /\ clock' = clock + d
        /\ log' = Call("goto", ok)
        /\ IF ok THEN pc' = "fill" /\ exc' = exc
                 ELSE pc' = "raise" /\ exc' = "NavigationError"
    /\ UNCHANGED <<routine, sess, inputValue, stdout, files, waitStart, waitEnd,
                   cardAt, caught, exitStatus, data>>

\* Variant of ContentFill with the fill moved inside the try: a missing input
\* lands in the handler
ContentFill_InsideTry ==
    /\ routine = "content" /\ pc = "fill"
    /\ \E present \in BOOLEAN :
        /\ log' = Call("fill", present)
        /\ IF present
           THEN inputValue' = QueryText /\ pc' = "click" /\ exc' = exc
           ELSE inputValue' = inputValue /\ pc' = "except" /\ exc' = "InputMissing"
    /\ UNCHANGED <<routine, sess, stdout, files, timing, caught, exitStatus, data>>

\* line 12: page.fill("#kanji-input", ...); no explicit wait precedes it here,
\* page.fill raises when the element does not show up; outside the try
ContentFill ==
    /\ routine = "content" /\ pc = "fill"
    /\ \E present \in BOOLEAN :
        /\ log' = Call("fill", present)
        /\ IF present
           THEN inputValue' = QueryText /\ pc' = "click" /\ exc' = exc
           ELSE inputValue' = inputValue /\ pc' = "raise" /\ exc' = "InputMissing"
    /\ UNCHANGED <<routine, sess, stdout, files, timing, caught, exitStatus, data>>

\* line 13: page.click("#search-btn"); outside the try
ContentClick ==
    /\ routine = "content" /\ pc = "click"
    /\ \E present \in BOOLEAN :
        /\ log' = Call("click", present)
        /\ IF present
           THEN pc' = "wait_card" /\ exc' = exc
           ELSE pc' = "raise" /\ exc' = "ButtonMissing"
    /\ UNCHANGED <<routine, sess, inputValue, stdout, files, timing, caught,
                   exitStatus, data>>

\* Variant of ContentWaitForCard with the timeout argument left out of the
\* presence wait: a card is waited for up to the library default of 30000 ms
ContentWaitForCard_DefaultTimeout ==
    /\ routine = "content" /\ pc = "wait_card"
    /\ waitStart' = clock
    /\ \E d \in CardDelays :
        IF d # Never /\ d <= 30000
        THEN /\ clock' = clock + d
             /\ cardAt' = clock + d
             /\ waitEnd' = waitEnd
             /\ log' = Call("wait_card", TRUE)
             /\ pc' = "settle"
             /\ exc' = exc
        ELSE /\ clock' = clock + FirstWaitTimeoutMs
             /\ cardAt' = cardAt
             /\ waitEnd' = clock + FirstWaitTimeoutMs
             /\ log' = Call("wait_card", FALSE)
             /\ pc' = "except"
             /\ exc' = "TimeoutError"
    /\ UNCHANGED <<routine, sess, inputValue, stdout, files, caught, exitStatus,
                   data>>

\* line 17: page.wait_for_selector(".kanji-card", timeout=10000); inside the try.
\* d is when the page shows its first card, counted from the start of the wait.
ContentWaitForCard ==
    /\ routine = "content" /\ pc = "wait_card"
    /\ waitStart' = clock
    /\ \E d \in CardDelays :
        IF d # Never /\ d <= FirstWaitTimeoutMs
        THEN /\ clock' = clock + d
             /\ cardAt' = clock + d
             /\ waitEnd' = waitEnd
             /\ log' = Call("wait_card", TRUE)
             /\ pc' = "settle"
             /\ exc' = exc
        ELSE /\ clock' = clock + FirstWaitTimeoutMs
             /\ cardAt' = cardAt
             /\ waitEnd' = clock + FirstWaitTimeoutMs
             /\ log' = Call("wait_card", FALSE)
             /\ pc' = "except"
             /\ exc' = "TimeoutError"
    /\ UNCHANGED <<routine, sess, inputValue, stdout, files, caught, exitStatus,
                   data>>

\* line 18: page.wait_for_timeout(5000)
ContentSettle ==
    /\ routine = "content" /\ pc = "settle"
    /\ clock' = clock + SettleDelayMs
    /\ waitEnd' = clock + SettleDelayMs
    /\ log' = Call("settle", TRUE)
    /\ pc' = "locate"
    /\ UNCHANGED <<routine, sess, inputValue, stdout, files, waitStart, cardAt,
                   exc, caught, exitStatus, data>>

\* lines 21-22, 35: card1 = page.locator("#card-..."); if card1.count() > 0
ContentLocate ==
    /\ routine = "content" /\ pc = "locate"
    /\ \E count \in 0..MaxMatches :
        /\ card1Count' = count
        /\ log' = Call("count", TRUE)
        /\ pc' = IF count > 0 THEN "read_fields" ELSE "fallback"
    /\ UNCHANGED <<routine, sess, inputValue, stdout, files, timing, exc, caught,
                   exitStatus, anchors, first_card_text>>

\* lines 23-29: three inner_text() reads, then three prints.  inner_text()
\* raises unless its locator resolves to exactly one element.
ContentReadFields ==
    /\ routine = "content" /\ pc = "read_fields"
    /\ \E nc, nm, nr \in 0..MaxMatches, char, meaning, readings \in FieldTexts :
        IF nc = 1 /\ nm = 1 /\ nr = 1
        THEN /\ log' = Call("read_fields", TRUE)
             /\ stdout' = stdout \o <<[line |-> "Card 1 Char", val |-> char],
                                      [line |-> "Card 1 Meaning", val |-> meaning],
                                      [line |-> "Card 1 Readings", val |-> readings]>>
             /\ pc' = "anchors"
             /\ exc' = exc
        ELSE /\ log' = Call("read_fields", FALSE)
             /\ stdout' = stdout
             /\ pc' = "except"
             /\ exc' = "ElementError"
    /\ UNCHANGED <<routine, sess, inputValue, files, timing, caught, exitStatus,
                   data>>

\* lines 32-33: anchors = ...all_inner_texts(); print(anchors[:3])
ContentAnchors ==
    /\ routine = "content" /\ pc = "anchors"
    /\ \E texts \in AnchorLists :
        /\ anchors' = texts
        /\ stdout' = Emit("Card 1 Anchors", PySlice(texts, AnchorsShown))
    /\ log' = Call("all_inner_texts", TRUE)
    /\ pc' = "close"
    /\ UNCHANGED <<routine, sess, inputValue, files, timing, exc, caught,
                   exitStatus, card1Count, first_card_text>>

\* lines 36-38: print("... not found by ID ..."); first card's inner_text()[:100].
\* The positional lookup raises when no .kanji-card is in the DOM any more.
ContentFallback ==
    /\ routine = "content" /\ pc = "fallback"
    /\ \E cards \in 0..MaxMatches, L \in TextLens :
        IF cards > 0
        THEN /\ first_card_text' = Text(L)
             /\ stdout' = stdout \o <<[line |-> "Not found by ID", val |-> ""],
                                      [line |-> "First Card Text",
                                       val |-> PySlice(Text(L), ExcerptLimit)]>>
             /\ log' = Call("first_inner_text", TRUE)
             /\ pc' = "close"
             /\ exc' = exc
        ELSE /\ first_card_text' = first_card_text
             /\ stdout' = Emit("Not found by ID", "")
             /\ log' = Call("first_inner_text", FALSE)
             /\ pc' = "except"
             /\ exc' = "ElementError"
    /\ UNCHANGED <<routine, sess, inputValue, files, timing, caught, exitStatus,
                   card1Count, anchors>>

\* lines 40-41: except Exception as e: print(f"Error: {e}")
ContentExcept ==
    /\ routine = "content" /\ pc = "except"
    /\ caught' = Append(caught, exc)
    /\ stdout' = Emit("Error", exc)
    /\ exc' = "none"
    /\ pc' = "close"
    /\ UNCHANGED <<routine, sess, inputValue, log, files, timing, exitStatus, data>>

\* line 43: browser.close(); reached only when control falls out of the
\* try statement, there is no finally
ContentClose ==
    /\ routine = "content" /\ pc = "close"
    /\ browser' = "closed"
    /\ closeCount' = closeCount + 1
    /\ log' = Call("close", TRUE)
    /\ pc' = "exit"
    /\ UNCHANGED <<routine, playwright, launchCount, inputValue, stdout, files,
                   timing, exc, caught, exitStatus, data>>

\* line 4 (leaving the with block) and lines 45-46: the playwright context
\* stops; an exception in flight leaves the routine and ends the process
ContentExit ==
    /\ routine = "content" /\ pc \in {"exit", "raise"}
    /\ playwright' = "stopped"
    /\ exitStatus' = IF pc = "raise" THEN "traceback" ELSE "normal"
    /\ pc' = "done"
    /\ UNCHANGED <<routine, browser, launchCount, closeCount, inputValue, log,
                   stdout, files, timing, exc, caught, data>>

\* ======================================================= verify_dashboard.py

\* line 5: browser = p.chromium.launch(headless=True); outside the try
DashboardLaunch ==
    /\ routine = "dashboard" /\ pc = "launch"
    /\ \E ok \in BOOLEAN :
        IF ok
        THEN /\ browser' = "open"
             /\ launchCount' = launchCount + 1
             /\ log' = Call("launch", TRUE)
             /\ pc' = "new_page"
             /\ exc' = exc
        ELSE /\ log' = Call("launch", FALSE)
             /\ exc' = "LaunchError"
             /\ pc' = "raise"
             /\ UNCHANGED <<browser, launchCount>>
    /\ UNCHANGED <<routine, playwright, closeCount, inputValue, stdout, files,
                   timing, caught, exitStatus, data>>

\* line 6: page = browser.new_page()
DashboardNewPage ==
    /\ routine = "dashboard" /\ pc = "new_page"
    /\ log' = Call("new_page", TRUE)
    /\ pc' = "goto"
    /\ UNCHANGED <<routine, sess, inputValue, stdout, files, timing, exc, caught,
                   exitStatus, data>>

\* Variant of DashboardGoto followed directly by the fill, without the wait
\* for the input
DashboardGoto_SkipWait ==
    /\ routine = "dashboard" /\ pc = "goto"
    /\ \E ok \in BOOLEAN, d \in LoadDelays :
        /\ clock' = clock + d
        /\ log' = Call("goto", ok)
        /\ IF ok THEN pc' = "fill" /\ exc' = exc
                 ELSE pc' = "raise" /\ exc' = "NavigationError"
    /\ UNCHANGED <<routine, sess, inputValue, stdout, files, waitStart, waitEnd,
                   cardAt, caught, exitStatus, data>>

\* line 9: page.goto(...); outside the try
DashboardGoto ==
    /\ routine = "dashboard" /\ pc = "goto"
    /\ \E ok \in BOOLEAN, d \in LoadDelays :
        /\ clock' = clock + d
        /\ log' = Call("goto", ok)
        /\ IF ok THEN pc' = "wait_input" /\ exc' = exc
                 ELSE pc' = "raise" /\ exc' = "NavigationError"
    /\ UNCHANGED <<routine, sess, inputValue, stdout, files, waitStart, waitEnd,
                   cardAt, caught, exitStatus, data>>

\* line 12: page.wait_for_selector("#kanji-input"); bounded by the library's
\* default timeout, raises when the element does not show up; outside the try
DashboardWaitForInput ==
    /\ routine = "dashboard" /\ pc = "wait_input"
    /\ \E present \in BOOLEAN, d \in LoadDelays :
        /\ clock' = clock + d
        /\ log' = Call("wait_input", present)
        /\ IF present THEN pc' = "fill" /\ exc' = exc
                      ELSE pc' = "raise" /\ exc' = "InputMissing"
    /\ UNCHANGED <<routine, sess, inputValue, stdout, files, waitStart, waitEnd,
                   cardAt, caught, exitStatus, data>>

\* line 15: page.fill("#kanji-input", ...); outside the try
DashboardFill ==
    /\ routine = "dashboard" /\ pc = "fill"
    /\ \E present \in BOOLEAN :
        /\ log' = Call("fill", present)
        /\ IF present
           THEN inputValue' = QueryText /\ pc' = "click" /\ exc' = exc
           ELSE inputValue' = inputValue /\ pc' = "raise" /\ exc' = "InputMissing"
    /\ UNCHANGED <<routine, sess, stdout, files, timing, caught, exitStatus, data>>

\* line 16: page.click("#search-btn"); outside the try
DashboardClick ==
    /\ routine = "dashboard" /\ pc = "click"
    /\ \E present \in BOOLEAN :
        /\ log' = Call("click", present)
        /\ IF present
           THEN pc' = "wait_card" /\ exc' = exc
           ELSE pc' = "raise" /\ exc' = "ButtonMissing"
    /\ UNCHANGED <<routine, sess, inputValue, stdout, files, timing, caught,
                   exitStatus, data>>

\* Variant of DashboardWaitForCard followed directly by the screenshot,
\* without the settle delay
DashboardWaitForCard_NoSettle ==
    /\ routine = "dashboard" /\ pc = "wait_card"
    /\ waitStart' = clock
    /\ \E d \in CardDelays :
        IF d # Never /\ d <= FirstWaitTimeoutMs
        THEN /\ clock' = clock + d
             /\ cardAt' = clock + d
             /\ waitEnd' = waitEnd
             /\ log' = Call("wait_card", TRUE)
             /\ pc' = "screenshot"
             /\ exc' = exc
        ELSE /\ clock' = clock + FirstWaitTimeoutMs
             /\ cardAt' = cardAt
             /\ waitEnd' = clock + FirstWaitTimeoutMs
             /\ log' = Call("wait_card", FALSE)
             /\ pc' = "except"
             /\ exc' = "TimeoutError"
    /\ UNCHANGED <<routine, sess, inputValue, stdout, files, caught, exitStatus,
                   data>>

\* line 21: page.wait_for_selector(".kanji-card", timeout=10000); inside the try
DashboardWaitForCard ==
    /\ routine = "dashboard" /\ pc = "wait_card"
    /\ waitStart' = clock
    /\ \E d \in CardDelays :
        IF d # Never /\ d <= FirstWaitTimeoutMs
        THEN /\ clock' = clock + d
             /\ cardAt' = clock + d
             /\ waitEnd' = waitEnd
             /\ log' = Call("wait_card", TRUE)
             /\ pc' = "settle"
             /\ exc' = exc
        ELSE /\ clock' = clock + FirstWaitTimeoutMs
             /\ cardAt' = cardAt
             /\ waitEnd' = clock + FirstWaitTimeoutMs
             /\ log' = Call("wait_card", FALSE)
             /\ pc' = "except"
             /\ exc' = "TimeoutError"
    /\ UNCHANGED <<routine, sess, inputValue, stdout, files, caught, exitStatus,
                   data>>

\* line 27: page.wait_for_timeout(5000)
DashboardSettle ==
    /\ routine = "dashboard" /\ pc = "settle"
    /\ clock' = clock + SettleDelayMs
    /\ waitEnd' = clock + SettleDelayMs
    /\ log' = Call("settle", TRUE)
    /\ pc' = "screenshot"
    /\ UNCHANGED <<routine, sess, inputValue, stdout, files, waitStart, cardAt,
                   exc, caught, exitStatus, data>>

\* Variant of DashboardScreenshot that prints the success line before taking
\* the screenshot
DashboardScreenshot_PrintFirst ==
    /\ routine = "dashboard" /\ pc = "screenshot"
    /\ \E ok \in BOOLEAN :
        /\ log' = Call("shot_result", ok)
        /\ IF ok
           THEN /\ files' = files \cup {ResultPath}
                /\ stdout' = Emit("Screenshot taken successfully.", "")
                /\ pc' = "close"
                /\ exc' = exc
           ELSE /\ files' = files
                /\ stdout' = Emit("Screenshot taken successfully.", "")
                /\ pc' = "except"
                /\ exc' = "ScreenshotError"
    /\ UNCHANGED <<routine, sess, inputValue, timing, caught, exitStatus, data>>

\* lines 30-31: page.screenshot(path=".../dashboard_result.png", full_page=True);
\* print("Screenshot taken successfully.").  A screenshot that cannot be taken
\* or written raises, inside the try.
DashboardScreenshot ==
    /\ routine = "dashboard" /\ pc = "screenshot"
    /\ \E ok \in BOOLEAN :
        /\ log' = Call("shot_result", ok)
        /\ IF ok
           THEN /\ files' = files \cup {ResultPath}
                /\ stdout' = Emit("Screenshot taken successfully.", "")
                /\ pc' = "close"
                /\ exc' = exc
           ELSE /\ files' = files
                /\ stdout' = stdout
                /\ pc' = "except"
                /\ exc' = "ScreenshotError"
    /\ UNCHANGED <<routine, sess, inputValue, timing, caught, exitStatus, data>>

\* Variant of DashboardExcept that only reports the error, as the content
\* routine's handler does
DashboardExcept_ReportOnly ==
    /\ routine = "dashboard" /\ pc = "except"
    /\ caught' = Append(caught, exc)
    /\ stdout' = Emit("Error waiting for results", exc)
    /\ exc' = "none"
    /\ pc' = "close"
    /\ UNCHANGED <<routine, sess, inputValue, log, files, timing, exitStatus, data>>

\* lines 33-35: except Exception as e: print(f"Error waiting for results: {e}");
\* page.screenshot(path=".../dashboard_error.png").  An exception raised by
\* this screenshot is raised inside the handler and leaves the routine.
DashboardExcept ==
    /\ routine = "dashboard" /\ pc = "except"
    /\ caught' = Append(caught, exc)
    /\ stdout' = Emit("Error waiting for results", exc)
    /\ \E ok \in BOOLEAN :
        /\ log' = Call("shot_error", ok)
        /\ IF ok
           THEN /\ files' = files \cup {ErrorPath}
                /\ pc' = "close"
                /\ exc' = "none"
           ELSE /\ files' = files
                /\ pc' = "raise"
                /\ exc' = "ScreenshotError"
    /\ UNCHANGED <<routine, sess, inputValue, timing, exitStatus, data>>

\* line 37: browser.close(); reached only when control falls out of the
\* try statement, there is no finally
DashboardClose ==
    /\ routine = "dashboard" /\ pc = "close"
    /\ browser' = "closed"
    /\ closeCount' = closeCount + 1
    /\ log' = Call("close", TRUE)
    /\ pc' = "exit"
    /\ UNCHANGED <<routine, playwright, launchCount, inputValue, stdout, files,
                   timing, exc, caught, exitStatus, data>>

\* line 4 (leaving the with block) and lines 39-40: the playwright context
\* stops; an exception in flight leaves the routine and ends the process
DashboardExit ==
    /\ routine = "dashboard" /\ pc \in {"exit", "raise"}
    /\ playwright' = "stopped"
    /\ exitStatus' = IF pc = "raise" THEN "traceback" ELSE "normal"
    /\ pc' = "done"
    /\ UNCHANGED <<routine, browser, launchCount, closeCount, inputValue, log,
                   stdout, files, timing, exc, caught, data>>

Next ==
    \/ ContentLaunch \/ ContentNewPage \/ ContentGoto \/ ContentFill
    \/ ContentClick \/ ContentWaitForCard \/ ContentSettle \/ ContentLocate
    \/ ContentReadFields \/ ContentAnchors \/ ContentFallback \/ ContentExcept
    \/ ContentClose \/ ContentExit
    \/ DashboardLaunch \/ DashboardNewPage \/ DashboardGoto
    \/ DashboardWaitForInput \/ DashboardFill \/ DashboardClick
    \/ DashboardWaitForCard \/ DashboardSettle \/ DashboardScreenshot
    \/ DashboardExcept \/ DashboardClose \/ DashboardExit

Spec == Init /\ [][Next]_vars

\* ============================================================== properties

Called(op, ok) == \E i \in DOMAIN log : log[i].op = op /\ log[i].ok = ok
Attempted(op) == \E i \in DOMAIN log : log[i].op = op
Printed(line) == \E i \in DOMAIN stdout : stdout[i].line = line
Caught(x) == \E i \in DOMAIN caught : caught[i] = x
\* some call of op comes before position i of the log and succeeded
OkBefore(op, i) == \E j \in 1..(i - 1) : log[j].op = op /\ log[j].ok

TimedOut == Called("wait_card", FALSE)
Structured ==
    /\ Printed("Card 1 Char") /\ Printed("Card 1 Meaning")
    /\ Printed("Card 1 Readings") /\ Printed("Card 1 Anchors")
PartlyStructured ==
    \/ Printed("Card 1 Char") \/ Printed("Card 1 Meaning")
    \/ Printed("Card 1 Readings") \/ Printed("Card 1 Anchors")
Fallback == Printed("First Card Text")

\* C1: once the browser has been launched, a finished run of either routine
\* has closed it exactly once, whatever the exit path.
C1_ClosedExactlyOnce ==
    (pc = "done" /\ launchCount = 1) => closeCount = 1

\* C2: a finished content run in which a card appeared within the wait has
\* produced exactly one outcome: the structured record when #card-... resolved
\* to at least one element, the fallback excerpt otherwise; never both, never
\* neither, never an error report instead.
C2_ExactlyOneOutcome ==
    (routine = "content" /\ pc = "done" /\ cardAt # -1) =>
        /\ ~Printed("Error")
        /\ IF card1Count > 0
           THEN Structured /\ ~Fallback
           ELSE Fallback /\ ~PartlyStructured

\* C3: a finished dashboard run whose result wait timed out caught the
\* timeout, wrote the error-path screenshot and not the success-path one,
\* closed the session and exited normally.
C3_TimeoutYieldsErrorShot ==
    (routine = "dashboard" /\ pc = "done" /\ TimedOut) =>
        /\ Caught("TimeoutError")
        /\ ErrorPath \in files
        /\ ResultPath \notin files
        /\ closeCount = 1
        /\ exitStatus = "normal"

FatalOps == {"launch", "goto", "wait_input", "fill", "click"}
FatalFaults == {"LaunchError", "NavigationError", "InputMissing", "ButtonMissing"}
C6_WaitBounded ==
    /\ waitEnd # -1 =>
        /\ waitEnd - waitStart <= FirstWaitTimeoutMs + SettleDelayMs
        /\ cardAt # -1 =>
            /\ cardAt - waitStart <= FirstWaitTimeoutMs
            /\ waitEnd = cardAt + SettleDelayMs
        /\ cardAt = -1 =>
            /\ waitEnd = waitStart + FirstWaitTimeoutMs
            /\ TimedOut
            /\ exc = "TimeoutError" \/ Caught("TimeoutError")
    /\ (waitStart # -1 /\ waitEnd = -1) =>
        /\ pc = "settle"
        /\ cardAt # -1
        /\ clock - waitStart <= FirstWaitTimeoutMs

C6_Witness ==
    /\ waitEnd # -1 /\ cardAt = waitStart + FirstWaitTimeoutMs
    /\ waitEnd - waitStart = FirstWaitTimeoutMs + SettleDelayMs

\* C7 (as stated): in either routine the fill comes only after an explicit
\* wait for #kanji-input has succeeded, and the click only after the fill.
C7_WaitFillClick ==
    \A i \in DOMAIN log :
        /\ log[i].op = "fill" => OkBefore("wait_input", i)
        /\ log[i].op = "click" => OkBefore("fill", i)

\* C7 (amended): in the dashboard routine the fill comes only after the
\* explicit wait for #kanji-input has succeeded; the content routine makes no
\* explicit wait for the input (page.fill is its first use of the element);
\* in both routines the click comes only after the fill has set the input to
\* the query text.
C7_Amended ==
    /\ \A i \in DOMAIN log :
        /\ (routine = "dashboard" /\ log[i].op = "fill") =>
              OkBefore("wait_input", i)
        /\ log[i].op = "click" => (OkBefore("fill", i) /\ inputValue = QueryText)
    /\ routine = "content" => ~Attempted("wait_input")

C7_Witness ==
    /\ routine = "dashboard" /\ Called("click", TRUE) /\ inputValue = QueryText

\* C8: the printed anchor list is exactly the first min(3, n) of the n anchor
\* texts, in order, and the printed excerpt exactly the first min(100, L)
\* characters of the first card's text.
C8_Truncation ==
    \A i \in DOMAIN stdout :
        /\ stdout[i].line = "Card 1 Anchors" =>
            LET v == stdout[i].val
                n == Len(anchors)
            IN  /\ Len(v) = (IF n < 3 THEN n ELSE 3)
                /\ \A k \in 1..Len(v) : v[k] = anchors[k]
        /\ stdout[i].line = "First Card Text" =>
            LET v == stdout[i].val
                L == Len(first_card_text)
            IN  /\ Len(v) = (IF L < 100 THEN L ELSE 100)
                /\ \A k \in 1..Len(v) : v[k] = first_card_text[k]

C8_Witness ==
    /\ Len(first_card_text) > ExcerptLimit /\ Fallback /\ pc = "done"

SuccessOps == {"count", "read_fields", "all_inner_texts", "first_inner_text",
               "shot_result"}
\* C9: extraction (content) and the success-path screenshot (dashboard) come
\* only after a card was observed and then the settle delay elapsed; the
\* settle delay is applied only right after a successful presence wait; a run
\* that observed no card extracts nothing and writes no success screenshot.
C9_SuccessAfterBothPhases ==
    /\ \A i \in DOMAIN log :
        /\ log[i].op \in SuccessOps =>
            \E k \in 1..(i - 1) :
                /\ log[k].op = "settle"
                /\ OkBefore("wait_card", k)
        /\ log[i].op = "settle" =>
            /\ i > 1
            /\ log[i - 1] = [op |-> "wait_card", ok |-> TRUE]
    /\ cardAt = -1 =>
        /\ \A i \in DOMAIN log : log[i].op \notin SuccessOps
        /\ ResultPath \notin files
        /\ ~PartlyStructured /\ ~Fallback
    /\ TimedOut => (cardAt = -1 /\ ~Attempted("settle"))

C9_Witness ==
    /\ Called("shot_result", TRUE) /\ ResultPath \in files /\ pc = "done"

\* C10: in the dashboard routine at most one of the two screenshot paths is
\* written; the success line is printed exactly when the success-path
\* screenshot completed, and the error line exactly when the error-path
\* screenshot was attempted, also when it is the success-path screenshot that
\* raised.
C10_OutcomesExclusive ==
    routine = "dashboard" =>
        /\ ~(ResultPath \in files /\ ErrorPath \in files)
        /\ Printed("Screenshot taken successfully.") <=> Called("shot_result", TRUE)
        /\ Called("shot_result", TRUE) <=> ResultPath \in files
        /\ Printed("Error waiting for results") <=> Attempted("shot_error")
        /\ Called("shot_error", TRUE) <=> ErrorPath \in files
        /\ (Called("shot_result", FALSE) /\ pc # "except") =>
              (Caught("ScreenshotError") /\ Attempted("shot_error"))

C10_Witness ==
    /\ routine = "dashboard" /\ Called("shot_result", FALSE)
    /\ ErrorPath \in files /\ pc = "done"

====
